---- MODULE Spec2Model ----
(***************************************************************************)
(* Model of mcp_oracle_server: the connection layer (pool registry,        *)
(* get_pool, get_connection), the validators (validate_identifier,         *)
(* check_dangerous_query) and the tools that submit statements.            *)
(***************************************************************************)
EXTENDS Integers, Sequences, FiniteSets, TLC

\* ------------------------------------------------------------------------
\* Bounds of the model
\* ------------------------------------------------------------------------
NumProcs == 2
MaxInvocations == 2
MaxRuns == 2
MaxFileCols == 2
MaxTableCols == 3
MaxResultRows == 6
MaxBatchSize == 3
MaxCsvRows == 4
MaxLogCalls == 103

\* ------------------------------------------------------------------------
\* Program constants
\* ------------------------------------------------------------------------
MaxIdentLen == 128
DEFAULT_PAGE_SIZE == 50
MaxMockRows == 1000
max_history == 100

VARIABLES
    cfg,                        \* the configuration loaded at import time
    pools,                      \* _pools: resolved name -> pool, or None
    createCalls,                \* create_pool calls made, per name
    createdOk,                  \* pools that create_pool returned, per name
    overwrites,                 \* registry entries replaced by another pool
    oracle_client_initialized,  \* _oracle_client_initialized
    initCalls,                  \* oracledb.init_oracle_client calls made
    leased,                     \* connections acquired and not yet given back
    inv,                        \* the tool invocations in progress
    invCount,                   \* invocations started so far
    vname, vchecked, vresult,   \* one call of validate_identifier
    fuzzy,                      \* one run of the fuzzy matching of an import
    csv,                        \* one run of the write loop of an export
    query_history,              \* QueryLogger.query_history
    logCalls                    \* log_query calls made so far

vars == <<cfg, pools, createCalls, createdOk, overwrites,
          oracle_client_initialized, initCalls, leased, inv, invCount,
          vname, vchecked, vresult, fuzzy, csv, query_history, logCalls>>

Procs == 1..NumProcs

\* ------------------------------------------------------------------------
\* Identifiers.  A name is kept run-length encoded: a sequence of runs
\* [c |-> character, n |-> repetitions], so that names of 128 and 129
\* characters are ordinary values.  "NL" is the newline character.
\* ------------------------------------------------------------------------
Letters == {"A", "b", "B"}
Digits == {"1"}
Marks == {"_", "$", "#", "."}
OtherChars == {" ", "-", ";", "NL"}
Chars == Letters \cup Digits \cup Marks \cup OtherChars

RECURSIVE NameLen(_)
NameLen(name) ==
    IF name = <<>> THEN 0 ELSE Head(name).n + NameLen(Tail(name))

\* What '$' of the pattern accepts: the end of the string, or the position
\* just before one newline that ends the string.
DropFinalNewline(name) ==
    IF name # <<>> /\ name[Len(name)].c = "NL"
    THEN IF name[Len(name)].n = 1
         THEN SubSeq(name, 1, Len(name) - 1)
         ELSE [name EXCEPT ![Len(name)].n = @ - 1]
    ELSE name

\* '^[A-Za-z][A-Za-z0-9_$#\.]*' up to the end of the text
MatchesWhole(text) ==
    /\ text # <<>>
    /\ text[1].c \in Letters
    /\ \A i \in DOMAIN text : text[i].c \in Letters \cup Digits \cup Marks

re_match(name) == MatchesWhole(name) \/ MatchesWhole(DropFinalNewline(name))

validate_identifier(name) ==
    IF name = <<>> THEN FALSE
    ELSE re_match(name) /\ NameLen(name) <= MaxIdentLen

\* ------------------------------------------------------------------------
\* Statements.  A statement is a sequence of tokens: words and the
\* whitespace between them.
\* ------------------------------------------------------------------------
IsSpace(t) == t \in {" ", "  "}

UpperTok(t) ==
    CASE t = "select" -> "SELECT"
      [] t = "with" -> "WITH"
      [] t = "alter" -> "ALTER"
      [] t = "system" -> "SYSTEM"
      [] t = "drop" -> "DROP"
      [] OTHER -> t

upper(s) == [i \in DOMAIN s |-> UpperTok(s[i])]

RECURSIVE lstrip(_)
lstrip(s) == IF s # <<>> /\ IsSpace(Head(s)) THEN lstrip(Tail(s)) ELSE s

RECURSIVE rstrip(_)
rstrip(s) ==
    IF s # <<>> /\ IsSpace(s[Len(s)]) THEN rstrip(SubSeq(s, 1, Len(s) - 1)) ELSE s

strip(s) == rstrip(lstrip(s))

\* words of the vocabulary that properly contain another word
TokStartsWith(t, w) == t = w \/ <<t, w>> \in {<<"WITHIN", "WITH">>}
TokEndsWith(t, w) == t = w \/ <<t, w>> \in {<<"BACKDROP", "DROP">>}
TokContains(t, w) == TokStartsWith(t, w) \/ TokEndsWith(t, w)

startswith(s, w) == s # <<>> /\ TokStartsWith(s[1], w)

\* Python's "kw in text" for a keyword given as a token sequence
Contains(s, kw) ==
    IF Len(kw) = 1
    THEN \E i \in DOMAIN s : TokContains(s[i], kw[1])
    ELSE \E i \in 1..(Len(s) - Len(kw) + 1) :
            /\ TokEndsWith(s[i], kw[1])
            /\ TokStartsWith(s[i + Len(kw) - 1], kw[Len(kw)])
            /\ \A j \in 2..(Len(kw) - 1) : s[i + j - 1] = kw[j]

DANGEROUS_KEYWORDS ==
    << <<"DROP", " ", "DATABASE">>,
       <<"DROP", " ", "TABLESPACE">>,
       <<"SHUTDOWN">>,
       <<"ALTER", " ", "SYSTEM">> >>

NoKeyword == <<>>

\* first keyword of the deny-list found in the upper-cased text, or None
check_dangerous_query(query) ==
    LET upper_query == upper(query)
        hits == {k \in DOMAIN DANGEROUS_KEYWORDS :
                    Contains(upper_query, DANGEROUS_KEYWORDS[k])}
    IN IF hits = {} THEN NoKeyword
       ELSE DANGEROUS_KEYWORDS[CHOOSE k \in hits : \A m \in hits : k <= m]

\* ------------------------------------------------------------------------
\* Configuration (config.py).  DATABASES keeps the profiles in configured
\* order.  A profile's mode is "absent" when the profile has no "mode" key
\* (the .env fallback), "None" when the key holds None (a profile of
\* oracle_config.json that names no mode), or the configured text.
\* ------------------------------------------------------------------------
Configs ==
    << [default_db |-> "default",
        databases |-> << [name |-> "default", mode |-> "absent"] >>],
       [default_db |-> "default",
        databases |-> << [name |-> "dev", mode |-> "normal"],
                         [name |-> "sys", mode |-> "SYSDBA"] >>],
       [default_db |-> "default",
        databases |-> << [name |-> "sys", mode |-> "sysdba"],
                         [name |-> "default", mode |-> "None"] >>] >>

DATABASES == Configs[cfg].databases
GLOBAL_CONFIG == [default_db |-> Configs[cfg].default_db]

AllNames == {"default", "dev", "sys"}
Keys == {DATABASES[i].name : i \in DOMAIN DATABASES}
KeyList == [i \in DOMAIN DATABASES |-> DATABASES[i].name]
Profile(n) == DATABASES[CHOOSE i \in DOMAIN DATABASES : DATABASES[i].name = n]

\* db_conf.get("mode", ""): the default only replaces a missing key
ModeGet(db_conf) == IF db_conf.mode = "absent" THEN "" ELSE db_conf.mode
ModeRaises(db_conf) == ModeGet(db_conf) = "None"
UpperMode(m) == IF m = "sysdba" THEN "SYSDBA" ELSE m
\* a mode test that forgets upper()
IsSysdbaCaseSensitive(db_conf) == ModeGet(db_conf) = "SYSDBA"
\* db_conf.get("mode", "").upper() == "SYSDBA"
IsSysdba(db_conf) == UpperMode(ModeGet(db_conf)) = "SYSDBA"

NoMessage == [value |-> "", hasList |-> FALSE, available |-> <<>>]

\* get_connection's own resolution of database_name
ResolveInGetConnection(db_name) ==
    LET d == IF db_name = "" THEN GLOBAL_CONFIG.default_db ELSE db_name
    IN IF d \in Keys THEN [ok |-> TRUE, name |-> d, msg |-> NoMessage]
       ELSE IF "default" \notin Keys /\ Len(DATABASES) > 0
       THEN [ok |-> TRUE, name |-> DATABASES[1].name, msg |-> NoMessage]
       ELSE [ok |-> FALSE, name |-> d,
             msg |-> [value |-> d, hasList |-> FALSE, available |-> <<>>]]

\* get_pool's resolution of the name it is given
ResolveInGetPool(db_name) ==
    LET d == IF db_name = "" THEN GLOBAL_CONFIG.default_db ELSE db_name
    IN IF d \in Keys THEN [ok |-> TRUE, name |-> d, msg |-> NoMessage]
       ELSE IF "default" \notin Keys /\ Len(DATABASES) > 0
       THEN [ok |-> TRUE, name |-> DATABASES[1].name, msg |-> NoMessage]
       ELSE [ok |-> FALSE, name |-> d,
             msg |-> [value |-> d, hasList |-> TRUE, available |-> KeyList]]

\* ------------------------------------------------------------------------
\* Calls made on the driver by one invocation, in order.
\* ------------------------------------------------------------------------
NoSql == <<>>

Ev(op, kind, sql, names, db, pool) ==
    [op |-> op, kind |-> kind, sql |-> sql, names |-> names, db |-> db, pool |-> pool,
     num |-> <<>>]

\* the same call with the numbers its statement or its batch carries
WithNum(e, num) == [e EXCEPT !.num = num]

ConnEv(op, db, pool) == Ev(op, "conn", NoSql, {}, db, pool)
Exec(kind, sql, names) == Ev("execute", kind, sql, names, "", 0)
ExecMany(kind, sql, names) == Ev("executemany", kind, sql, names, "", 0)
Commit == Ev("commit", "txn", NoSql, {}, "", 0)
\* conn.commit() that raises: nothing is committed
CommitRaised == Ev("commit", "raised", NoSql, {}, "", 0)
Rollback == Ev("rollback", "txn", NoSql, {}, "", 0)
LogQuery(sql) == Ev("log_query", "log", sql, {}, "", 0)
\* cursor.fetchall() / fetchone() that returned n rows
Fetched(n) == WithNum(Ev("fetch", "rows", NoSql, {}, "", 0), <<n>>)

\* ------------------------------------------------------------------------
\* Inputs of the tools
\* ------------------------------------------------------------------------
Statements ==
    { <<"SELECT", " ", "1">>,
      <<" ", "select", " ", "1">>,
      <<"WITH", " ", "T", " ", "SELECT">>,
      <<"UPDATE", " ", "T">>,
      <<"DROP", " ", "TABLE">>,
      <<"alter", " ", "system">>,
      <<"SELECT", " ", "SHUTDOWN">>,
      <<"UPDATE", " ", "BACKDROP">>,
      <<"DROP", " ", "DATABASE">> }

Run(c, n) == [c |-> c, n |-> n]
NoName == <<>>
PlainName == <<Run("A", 1), Run("b", 1)>>
InjectName == <<Run("A", 1), Run(";", 1)>>
NewlineName == <<Run("A", 1), Run("NL", 1)>>
ToolNames == {PlainName, InjectName, NewlineName}

UpperChar(c) == IF c = "b" THEN "B" ELSE c
upper_name(name) == [i \in DOMAIN name |-> Run(UpperChar(name[i].c), name[i].n)]

\* ------------------------------------------------------------------------
\* analyze_import_file, step 3: the fuzzy matching of the file's header with
\* the table's columns.  A column name is the sequence of its characters;
\* a row of the catalog is [name, null] with null "Y" or "N"; a dict is the
\* sequence of its [key, value] items in insertion order.
\* ------------------------------------------------------------------------
Range(s) == {s[i] : i \in DOMAIN s}

DictAssign(d, key, value) ==
    IF \E i \in DOMAIN d : d[i].key = key
    THEN [i \in DOMAIN d |-> IF d[i].key = key THEN [key |-> key, value |-> value] ELSE d[i]]
    ELSE Append(d, [key |-> key, value |-> value])

DictKeys(d) == {d[i].key : i \in DOMAIN d}
DictValues(d) == {d[i].value : i \in DOMAIN d}

\* file_cols = [c.strip() for c in df.columns]
file_cols(columns) == [i \in DOMAIN columns |-> strip(columns[i])]

\* normalize(s) = str(s).upper().replace("_", "").replace(" ", "")
normalize(s) ==
    SelectSeq([i \in DOMAIN s |-> UpperChar(s[i])], LAMBDA c : c \notin {"_", " "})

\* norm in db_col_map, and db_col_map[norm]: of the table's columns with one
\* normal form the dict comprehension keeps the last
InDbColMap(db_cols_info, norm) ==
    \E i \in DOMAIN db_cols_info : normalize(db_cols_info[i].name) = norm

db_col_map(db_cols_info, norm) ==
    LET hits == {i \in DOMAIN db_cols_info : normalize(db_cols_info[i].name) = norm}
    IN db_cols_info[CHOOSE i \in hits : \A j \in hits : j <= i].name

\* the loop "for f_col in file_cols" after its first k rounds
RECURSIVE mapping_proposal_after(_, _, _)
mapping_proposal_after(fcols, db_cols_info, k) ==
    IF k = 0 THEN <<>>
    ELSE LET before == mapping_proposal_after(fcols, db_cols_info, k - 1)
             norm_f == normalize(fcols[k])
         IN IF InDbColMap(db_cols_info, norm_f)
            THEN DictAssign(before, fcols[k], db_col_map(db_cols_info, norm_f))
            ELSE before

mapping_proposal(fcols, db_cols_info) ==
    mapping_proposal_after(fcols, db_cols_info, Len(fcols))

extra_in_file(fcols, db_cols_info) ==
    SelectSeq(fcols, LAMBDA f_col : ~InDbColMap(db_cols_info, normalize(f_col)))

used_db_cols(fcols, db_cols_info) ==
    {db_col_map(db_cols_info, normalize(fcols[k])) :
        k \in {j \in DOMAIN fcols : InDbColMap(db_cols_info, normalize(fcols[j]))}}

\* an entry is the column's name and whether " (Required)" follows it
missing_in_file(fcols, db_cols_info) ==
    LET unused == SelectSeq(db_cols_info,
                            LAMBDA col : col.name \notin used_db_cols(fcols, db_cols_info))
    IN [i \in DOMAIN unused |->
           [name |-> unused[i].name, required |-> unused[i].null = "N"]]

\* what the report of analyze_import_file tells of its matching
fuzzy_matching(columns, db_cols_info) ==
    LET fcols == file_cols(columns)
    IN [mapping_proposal |-> mapping_proposal(fcols, db_cols_info),
        missing_in_file |-> missing_in_file(fcols, db_cols_info),
        extra_in_file |-> extra_in_file(fcols, db_cols_info)]

\* the column names tried in file headers and in tables
FileColumnNames == {<<"A">>, <<"b">>, <<"A", "B">>, <<"A", "_", "B">>, <<" ", "A">>}
TableColumnNames == {<<"A">>, <<"B">>, <<"C">>, <<"A", "B">>, <<"A", "_", "B">>}

\* df.columns: the names of a header differ from one another as read
Headers ==
    {h \in UNION {[1..k -> FileColumnNames] : k \in 1..MaxFileCols} :
        \A i, j \in DOMAIN h : i # j => h[i] # h[j]}

\* the rows of user_tab_columns for a table: one row per column name
Tables ==
    {t \in UNION {[1..k -> [name : TableColumnNames, null : {"Y", "N"}]] :
                    k \in 1..MaxTableCols} :
        \A i, j \in DOMAIN t : i # j => t[i].name # t[j].name}

NoFuzzy ==
    [columns |-> <<>>, db_cols_info |-> <<>>, done |-> FALSE,
     out |-> fuzzy_matching(<<>>, <<>>)]

DbArgs == {"", "sys", "nosuch"}

\* the page numbers and page sizes tried, and the row counts COUNT(*) gives
Pages == {0, 1, 3}
PageSizes == {0 - 2, 0, 1, 2, DEFAULT_PAGE_SIZE}
TotalRows == {0, 1, 3, 120}

\* a table name with two dots, as in A.B.A
TwoDotName == <<Run("A", 1), Run(".", 1), Run("B", 1), Run(".", 1), Run("A", 1)>>

\* the rows of the file that import_data_from_file reads
FileRows == 2

\* calls of import_data_from_file: the header of the file as re-read, the
\* table's columns at that time and the decoded mapping
ImportCase(columns, db_cols_info, mapping) ==
    [columns |-> columns, db_cols_info |-> db_cols_info, mapping |-> mapping]

OneColumn(name) == <<[name |-> name, null |-> "N"]>>
OnePair(key, value) == <<[key |-> key, value |-> value]>>

\* the mapping fits the file and the table
FreshCase == ImportCase(<< <<"A">> >>, OneColumn(<<"A">>), OnePair(<<"A">>, <<"A">>))
\* the header has a leading space that the key has not
StaleSourceCase == ImportCase(<< <<" ", "A">> >>, OneColumn(<<"A">>), OnePair(<<"A">>, <<"A">>))
\* the table has lost the column the mapping names
StaleDestinationCase == ImportCase(<< <<"A">> >>, OneColumn(<<"B">>), OnePair(<<"A">>, <<"A">>))
\* the mapping names a destination that is no column name
InjectingCase == ImportCase(<< <<"A">> >>, OneColumn(<<"A">>), OnePair(<<"A">>, <<"A", ";">>))
\* two keys of the mapping name one destination
TwiceCase ==
    ImportCase(<< <<"A", "B">>, <<"A", "_", "B">> >>, OneColumn(<<"A", "B">>),
               <<[key |-> <<"A", "B">>, value |-> <<"A", "B">>],
                 [key |-> <<"A", "_", "B">>, value |-> <<"A", "B">>]>>)

ImportCases == {FreshCase, StaleSourceCase, StaleDestinationCase, InjectingCase, TwiceCase}

SqlTools ==
    {"run_read_only_query", "run_query_with_pagination", "run_modification_query",
     "explain_query_plan", "export_query_to_csv"}

Arg(tool, db, sql, ident, ident2, otype, n, env) ==
    [tool |-> tool, db |-> db, sql |-> sql, ident |-> ident, ident2 |-> ident2,
     otype |-> otype, n |-> n, env |-> env, page_size |-> DEFAULT_PAGE_SIZE,
     columns |-> <<>>, db_cols_info |-> <<>>, mapping |-> <<>>]

\* the same call on a file with the header "columns", while the table has
\* the columns "db_cols_info" in the catalog
WithFile(a, columns, db_cols_info) ==
    [a EXCEPT !.columns = columns, !.db_cols_info = db_cols_info]

\* the same call with the decoded column_mapping_json
WithMapping(a, mapping) == [a EXCEPT !.mapping = mapping]

\* the same call with a page size given
WithPageSize(a, page_size) == [a EXCEPT !.page_size = page_size]

\* Tables for generate_mock_data: name, data_type and data_length of each
\* column as user_tab_columns gives them; no column for a missing table
MockColumn(name, dtype, dlen) == [name |-> name, dtype |-> dtype, dlen |-> dlen]
UsersTable ==
    <<MockColumn("ID", "NUMBER", 22), MockColumn("USER_NAME", "VARCHAR2", 50),
      MockColumn("BIO", "VARCHAR2", 200), MockColumn("CREATED", "DATE", 7)>>
FlagsTable == <<MockColumn("ID", "NUMBER", 22), MockColumn("FLAG", "CHAR", 1)>>
MissingTable == <<>>
MockTables == {UsersTable, FlagsTable, MissingTable}
MockRowCounts == {0, 5, MaxMockRows, MaxMockRows + 1, MaxMockRows + 500}

\* Statement and database_name of the calls of the SQL tools: every
\* statement on the default database, two statements on the others
SqlCases ==
    {[db |-> "", sql |-> q] : q \in Statements}
    \cup {[db |-> d, sql |-> q] :
            d \in DbArgs, q \in {<<"SELECT", " ", "1">>, <<"UPDATE", " ", "T">>}}

\* the tools that take no text the server has to test
CatalogTools ==
    {"list_constraints", "list_indexes", "get_object_ddl", "inspect_locks", "kill_session",
     "list_invalid_objects", "check_tablespace_usage"}

NoArg == Arg("", "", NoSql, NoName, NoName, "", 0, "ok")

Inputs ==
    {Arg(t, c.db, c.sql, NoName, NoName, "", 1, "ok") :
        t \in SqlTools \ {"run_query_with_pagination", "export_query_to_csv"},
        c \in SqlCases}
    \cup {Arg("run_query_with_pagination", c.db, c.sql, NoName, NoName, "", n, "ok") :
        c \in SqlCases, n \in {0, 1}}
    \cup {WithPageSize(Arg("run_query_with_pagination", "", <<"SELECT", " ", "1">>,
                           NoName, NoName, "", page, "ok"), page_size) :
        page \in Pages, page_size \in PageSizes}
    \cup {Arg("export_query_to_csv", c.db, c.sql, NoName, NoName, "", 1, e) :
        c \in SqlCases, e \in {"ok", "bad_dir"}}
    \cup {Arg("search_in_table", d, NoSql, i, NoName, "", 1, "ok") :
        d \in DbArgs, i \in ToolNames}
    \cup {Arg("compile_object", d, NoSql, i, NoName, "PROCEDURE", 1, "ok") :
        d \in DbArgs, i \in ToolNames}
    \cup {Arg("compile_object", "", NoSql, PlainName, NoName, o, 1, "ok") :
        o \in {"package_body", "TABLE"}}
    \cup {WithFile(Arg("generate_mock_data", d, NoSql, i, NoName, "", 5, "ok"),
                   <<>>, UsersTable) :
        d \in DbArgs, i \in ToolNames}
    \cup {WithFile(Arg("generate_mock_data", d, NoSql, PlainName, NoName, "", n, "ok"),
                   <<>>, t) :
        d \in {""}, n \in MockRowCounts, t \in MockTables}
    \cup {WithMapping(WithFile(Arg("import_data_from_file", d, NoSql, i, NoName, "",
                                   FileRows, "ok"), c.columns, c.db_cols_info),
                      c.mapping) :
        d \in {""}, i \in {PlainName, InjectName}, c \in ImportCases}
    \cup {WithMapping(WithFile(Arg("import_data_from_file", d, NoSql, PlainName, NoName, "",
                                   FileRows, "ok"), FreshCase.columns, FreshCase.db_cols_info),
                      FreshCase.mapping) :
        d \in DbArgs}
    \cup {WithMapping(WithFile(Arg("import_data_from_file", d, NoSql, PlainName, NoName, "",
                                   FileRows, e), FreshCase.columns, FreshCase.db_cols_info),
                      FreshCase.mapping) :
        d \in {""}, e \in {"bad_json", "not_object", "bad_file"}}
    \cup {WithFile(Arg("analyze_import_file", d, NoSql, i, NoName, "", 1, "ok"),
                   c.columns, c.db_cols_info) :
        d \in {""}, i \in {PlainName, TwoDotName}, c \in {FreshCase, StaleSourceCase}}
    \cup {WithFile(Arg("analyze_import_file", d, NoSql, PlainName, NoName, "", 1, "ok"),
                   FreshCase.columns, FreshCase.db_cols_info) :
        d \in DbArgs}
    \cup {WithFile(Arg("analyze_import_file", d, NoSql, PlainName, NoName, "", 1, e),
                   FreshCase.columns, FreshCase.db_cols_info) :
        d \in {""}, e \in {"no_file", "bad_type", "unreadable"}}
    \cup {Arg(t, d, NoSql, PlainName, NoName, "TABLE", 1, "ok") :
        t \in CatalogTools, d \in {"", "sys"}}

\* ------------------------------------------------------------------------
\* What a tool does before it asks for a connection: "" when it goes on,
\* otherwise the kind of result it returns at once.
\* ------------------------------------------------------------------------
\* run_read_only_query without its deny-list test
run_read_only_query_check_NoDenyList(a) ==
    LET normalized == upper(strip(a.sql))
    IN IF ~startswith(normalized, "SELECT") /\ ~startswith(normalized, "WITH")
       THEN "rejected"
       ELSE ""

run_read_only_query_check(a) ==
    LET normalized == upper(strip(a.sql))
    IN IF ~startswith(normalized, "SELECT") /\ ~startswith(normalized, "WITH")
       THEN "rejected"
       ELSE IF check_dangerous_query(a.sql) # NoKeyword THEN "rejected" ELSE ""

run_query_with_pagination_check(a) == IF a.n < 1 THEN "rejected" ELSE ""

run_modification_query_check(a) ==
    LET normalized == upper(strip(a.sql))
    IN IF startswith(normalized, "SELECT") THEN "rejected"
       ELSE IF Contains(normalized, <<"DROP">>) THEN "rejected" ELSE ""

export_query_to_csv_check(a) == IF a.env = "bad_dir" THEN "error" ELSE ""

allowed_types == {"PROCEDURE", "FUNCTION", "PACKAGE", "VIEW", "TRIGGER", "PACKAGE BODY"}
obj_type(a) == IF a.otype = "package_body" THEN "PACKAGE BODY" ELSE a.otype
compile_object_check(a) == IF obj_type(a) \notin allowed_types THEN "rejected" ELSE ""

\* generate_mock_data without its row-count cap
generate_mock_data_check_NoCap(a) == ""

generate_mock_data_check(a) == IF a.n > MaxMockRows THEN "rejected" ELSE ""

\* import_data_from_file that selects no column of the file before it
\* asks for a connection
import_data_from_file_check_TrustingMapping(a) ==
    IF a.env = "bad_json" THEN "rejected"
    ELSE IF a.env \in {"bad_file", "not_object"} THEN "error" ELSE ""

\* json.loads raises; pd.read_csv raises; mapping.keys() raises on JSON that
\* is no object; df[list(mapping.keys())] raises KeyError on a key that is
\* no column of the file
import_data_from_file_check(a) ==
    IF a.env = "bad_json" THEN "rejected"
    ELSE IF a.env \in {"bad_file", "not_object"} THEN "error"
    ELSE IF ~(DictKeys(a.mapping) \subseteq Range(a.columns)) THEN "error" ELSE ""

analyze_import_file_check(a) ==
    IF a.env \in {"no_file", "bad_type", "unreadable"} THEN "error" ELSE ""

locate_table_check(a) == IF ~validate_identifier(a.ident) THEN "rejected" ELSE ""

ToolCheck(a) ==
    CASE a.tool = "run_read_only_query" -> run_read_only_query_check(a)
      [] a.tool = "run_query_with_pagination" -> run_query_with_pagination_check(a)
      [] a.tool = "run_modification_query" -> run_modification_query_check(a)
      [] a.tool = "export_query_to_csv" -> export_query_to_csv_check(a)
      [] a.tool = "compile_object" -> compile_object_check(a)
      [] a.tool = "generate_mock_data" -> generate_mock_data_check(a)
      [] a.tool = "import_data_from_file" -> import_data_from_file_check(a)
      [] a.tool = "analyze_import_file" -> analyze_import_file_check(a)
      [] a.tool = "locate_table" -> locate_table_check(a)
      [] OTHER -> ""

\* ------------------------------------------------------------------------
\* What a tool does with its connection.  Each operator gives the possible
\* runs of the with-body: the driver calls made, the result the body returns
\* ("" when it returns none) and the exception that leaves the body.
\* A driver call may raise a DatabaseError or an error of another class.
\* ------------------------------------------------------------------------
Failures == {"DatabaseError", "InterfaceError"}

Out(calls, result, exc) ==
    [calls |-> calls, result |-> result, exc |-> exc, report |-> <<>>]

\* the same run with the numbers its result text reports
Reporting(o, report) == [o EXCEPT !.report = report]

\* cursor.rowcount after a statement that succeeded
RowCounts == {0, 1}

run_read_only_query_body(a) ==
    LET e == Exec("user", a.sql, {})
    IN {Out(<<e>>, "", f) : f \in Failures}
       \cup {Out(<<e>>, "ok_no_description", "none"),
             Out(<<e, LogQuery(a.sql)>>, "ok", "none")}

\* Python's a // b: the integer q with b*q <= a < b*(q+1) for b > 0, and
\* with b*q >= a > b*(q+1) for b < 0
FloorDiv(a, b) ==
    LET m == (IF a < 0 THEN 0 - a ELSE a) + 1
    IN CHOOSE q \in (0 - m)..m :
          IF b > 0 THEN b * q <= a /\ a < b * (q + 1)
                   ELSE b * q >= a /\ a > b * (q + 1)

\* total pages computed as total_rows // page_size
total_pages_Truncating(total_rows, page_size) == FloorDiv(total_rows, page_size)

total_pages(total_rows, page_size) == FloorDiv(total_rows + page_size - 1, page_size)

offset(page, page_size) == (page - 1) * page_size

run_query_with_pagination_body(a) ==
    LET count_query == Exec("wrapped", a.sql, {})
        paginated_query ==
            WithNum(Exec("wrapped", a.sql, {}), <<offset(a.n, a.page_size), a.page_size>>)
    IN {Out(<<count_query>>, "", f) : f \in Failures}
       \cup (IF a.page_size = 0
              THEN {Out(<<count_query>>, "", "ZeroDivisionError")}
              ELSE {Out(<<count_query, paginated_query>>, "", f) : f \in Failures}
                   \cup {Reporting(Out(<<count_query, paginated_query>>, "ok", "none"),
                                   <<a.n, total_pages(total_rows, a.page_size), total_rows>>) :
                            total_rows \in TotalRows})

\* run_modification_query whose except branch returns without a rollback
run_modification_query_body_NoRollback(a) ==
    LET e == Exec("user", a.sql, {})
    IN {Out(<<e>>, "error", "none"),
        Out(<<e, CommitRaised>>, "error", "none")}
       \cup {Reporting(Out(<<e, Commit, LogQuery(a.sql)>>, "ok", "none"), <<rows_affected>>) :
                rows_affected \in RowCounts}

run_modification_query_body(a) ==
    LET e == Exec("user", a.sql, {})
    IN {Out(<<e, Rollback>>, "error", "none"),
        Out(<<e, CommitRaised, Rollback>>, "error", "none")}
       \cup {Reporting(Out(<<e, Commit, LogQuery(a.sql)>>, "ok", "none"), <<rows_affected>>) :
                rows_affected \in RowCounts}

explain_query_plan_body(a) ==
    LET explain_sql == Exec("wrapped", a.sql, {})
        display == Exec("catalog", NoSql, {})
    IN {Out(<<explain_sql>>, "error", "none"),
        Out(<<explain_sql, display>>, "error", "none"),
        Out(<<explain_sql, display>>, "ok", "none")}

export_query_to_csv_body(a) ==
    LET e == Exec("user", a.sql, {})
    IN {Out(<<e>>, "error", "none"),
        Out(<<e>>, "ok_no_description", "none"),
        Out(<<e>>, "ok", "none")}

search_in_table_body(a) ==
    LET columns == Exec("catalog", NoSql, {})
        search == Exec("interpolated", NoSql, {upper_name(a.ident)})
    IN {Out(<<columns>>, "", f) : f \in Failures}
       \cup {Out(<<columns>>, "not_found", "none")}
       \cup {Out(<<columns, search>>, "", f) : f \in Failures}
       \cup {Out(<<columns, search>>, "ok", "none")}

compile_object_body(a) ==
    LET e == Exec("interpolated", NoSql, {a.ident})
    IN {Out(<<e>>, "error", "none"),
        Out(<<e>>, "", "InterfaceError"),
        Out(<<e>>, "ok", "none")}

\* one round of locate_table's loop: check_table_exists(cursor, table_name)
\* counts the tables of that name; the count makes the round a match
locate_table_body(a) ==
    LET count == Exec("catalog", NoSql, {})
    IN {Out(<<count>>, "", f) : f \in Failures}
       \cup {Out(<<count, Fetched(0)>>, "absent", "none"),
             Out(<<count, Fetched(1)>>, "exists", "none")}

\* The catalog tools: one statement with bind variables inside
\* try / except Exception, which turns any error into a result text
list_constraints_body(a) ==
    LET e == Exec("catalog", NoSql, {})
    IN {Out(<<e>>, "error", "none"), Out(<<e>>, "ok", "none")}

list_indexes_body(a) ==
    LET e == Exec("catalog", NoSql, {})
    IN {Out(<<e>>, "error", "none"), Out(<<e>>, "ok", "none")}

get_object_ddl_body(a) ==
    LET e == Exec("catalog", NoSql, {})
    IN {Out(<<e>>, "error", "none"), Out(<<e>>, "ok", "none")}

inspect_locks_body(a) ==
    LET e == Exec("catalog", NoSql, {})
    IN {Out(<<e>>, "error", "none"), Out(<<e>>, "ok", "none")}

list_invalid_objects_body(a) ==
    LET e == Exec("catalog", NoSql, {})
    IN {Out(<<e>>, "error", "none"), Out(<<e>>, "ok", "none")}

\* kill_session formats its two integers into the statement
kill_session_body(a) ==
    LET e == Exec("interpolated", NoSql, {})
    IN {Out(<<e>>, "error", "none"), Out(<<e>>, "ok", "none")}

\* check_tablespace_usage catches oracledb.DatabaseError only
check_tablespace_usage_body(a) ==
    LET e == Exec("catalog", NoSql, {})
    IN {Out(<<e>>, "error", "none"),
        Out(<<e>>, "", "InterfaceError"),
        Out(<<e>>, "ok", "none")}

\* Python's "word in col" for the column names of the mock tables
InColumnName(word, col) ==
    <<word, col>> \in {<<"ID", "ID">>, <<"NAME", "USER_NAME">>, <<"EMAIL", "EMAIL">>}

\* The value generate_mock_data makes for one column (lines 985-1010), by
\* the Faker call that makes it.  faker.text(max_nb_chars) raises ValueError
\* when it is asked for fewer than 5 characters.
mock_value(c) ==
    IF InColumnName("ID", c.name) /\ c.dtype = "NUMBER" THEN "unique.random_int"
    ELSE IF c.dtype \in {"VARCHAR2", "CHAR", "NVARCHAR2"}
    THEN IF InColumnName("NAME", c.name) THEN "name"
         ELSE IF InColumnName("EMAIL", c.name) THEN "email"
         ELSE IF (IF c.dlen < 100 THEN c.dlen ELSE 100) < 5 THEN "ValueError"
         ELSE "text"
    ELSE IF c.dtype = "NUMBER" THEN "random_int"
    ELSE IF c.dtype = "DATE" THEN "date_between"
    ELSE "None"

\* len(range(row_count))
range_len(row_count) == IF row_count < 0 THEN 0 ELSE row_count

generate_mock_data_body(a) ==
    LET schema == Exec("catalog", NoSql, {})
        cols_info == a.db_cols_info
        fetched == Fetched(Len(cols_info))
        columns == [i \in DOMAIN cols_info |-> cols_info[i].name]
        row_data == [i \in DOMAIN cols_info |-> mock_value(cols_info[i])]
        insert == WithNum(ExecMany("interpolated", columns, {a.ident}),
                          <<range_len(a.n), Len(row_data)>>)
    IN {Out(<<schema, Rollback>>, "error", "none")}
       \cup (IF cols_info = <<>>
              THEN {Out(<<schema, fetched>>, "not_found", "none")}
              ELSE IF range_len(a.n) > 0 /\ \E i \in DOMAIN row_data : row_data[i] = "ValueError"
              THEN {Out(<<schema, fetched, Rollback>>, "error", "none")}
              ELSE {Out(<<schema, fetched, insert, Rollback>>, "error", "none"),
                    Out(<<schema, fetched, insert, CommitRaised, Rollback>>, "error", "none"),
                    Reporting(Out(<<schema, fetched, insert, Commit>>, "ok", "none"),
                              <<a.n>>)})

\* a column name as an identifier: one run for each character
AsName(col) == [i \in DOMAIN col |-> Run(col[i], 1)]

\* final_cols: the values of the mapping in the order of its keys
final_cols(mapping) == [i \in DOMAIN mapping |-> mapping[i].value]

\* the database compiles the INSERT only if every column it lists by a
\* plain name is a column of the table and no column is listed twice
TableAccepts(a) ==
    LET cols == final_cols(a.mapping)
    IN /\ \A i \in DOMAIN cols :
             validate_identifier(AsName(cols[i])) =>
                cols[i] \in {a.db_cols_info[k].name : k \in DOMAIN a.db_cols_info}
       /\ \A i, j \in DOMAIN cols : i # j => cols[i] # cols[j]

\* import_data_from_file whose except branch returns without a rollback
import_data_from_file_body_NoRollback(a) ==
    LET insert == WithNum(ExecMany("interpolated", NoSql,
                                   {a.ident} \cup {AsName(c) : c \in Range(final_cols(a.mapping))}),
                          <<a.n>>)
    IN {Out(<<insert>>, "error", "none")}
       \cup (IF TableAccepts(a)
              THEN {Out(<<insert, CommitRaised>>, "error", "none"),
                    Reporting(Out(<<insert, Commit>>, "ok", "none"), <<a.n>>)}
              ELSE {})

\* import_data_from_file that inserts by the mapping the server would
\* propose for the file and the table, whatever the caller passed
import_data_from_file_body_OwnProposal(a) ==
    LET own == fuzzy_matching(a.columns, a.db_cols_info).mapping_proposal
        insert == WithNum(ExecMany("interpolated", NoSql,
                                   {a.ident} \cup {AsName(c) : c \in Range(final_cols(own))}),
                          <<a.n>>)
    IN {Out(<<insert, Rollback>>, "error", "none")}
       \cup (IF TableAccepts(a)
              THEN {Out(<<insert, CommitRaised, Rollback>>, "error", "none"),
                    Reporting(Out(<<insert, Commit>>, "ok", "none"), <<a.n>>)}
              ELSE {})

import_data_from_file_body(a) ==
    LET insert == WithNum(ExecMany("interpolated", NoSql,
                                   {a.ident} \cup {AsName(c) : c \in Range(final_cols(a.mapping))}),
                          <<a.n>>)
    IN {Out(<<insert, Rollback>>, "error", "none")}
       \cup (IF TableAccepts(a)
              THEN {Out(<<insert, CommitRaised, Rollback>>, "error", "none"),
                    Reporting(Out(<<insert, Commit>>, "ok", "none"), <<a.n>>)}
              ELSE {})

\* the pieces of a table name between its dots
RECURSIVE Dots(_)
Dots(name) ==
    IF name = <<>> THEN 0
    ELSE (IF Head(name).c = "." THEN Head(name).n ELSE 0) + Dots(Tail(name))

\* analyze_import_file that tries the mapping with an insert of the preview
analyze_import_file_body_Inserting(a) ==
    LET exists == Exec("catalog", NoSql, {})
        sql_cols == Exec("catalog", NoSql, {})
        insert == ExecMany("interpolated", NoSql, {a.ident})
    IN {Out(<<exists, sql_cols, insert, Commit>>, "ok", "none")}

analyze_import_file_body(a) ==
    LET exists == Exec("catalog", NoSql, {})
        sql_cols == Exec("catalog", NoSql, {})
    IN {Out(<<exists>>, "", f) : f \in Failures}
       \cup {Out(<<exists>>, "not_found", "none")}
       \cup (IF Dots(a.ident) > 1
              THEN {Out(<<exists>>, "", "ValueError")}
              ELSE {Out(<<exists, sql_cols>>, "", f) : f \in Failures}
                   \cup {Reporting(Out(<<exists, sql_cols>>, "ok", "none"),
                                   <<fuzzy_matching(a.columns, a.db_cols_info)>>)})

ToolBody(a) ==
    CASE a.tool = "run_read_only_query" -> run_read_only_query_body(a)
      [] a.tool = "run_query_with_pagination" -> run_query_with_pagination_body(a)
      [] a.tool = "run_modification_query" -> run_modification_query_body(a)
      [] a.tool = "explain_query_plan" -> explain_query_plan_body(a)
      [] a.tool = "export_query_to_csv" -> export_query_to_csv_body(a)
      [] a.tool = "search_in_table" -> search_in_table_body(a)
      [] a.tool = "compile_object" -> compile_object_body(a)
      [] a.tool = "generate_mock_data" -> generate_mock_data_body(a)
      [] a.tool = "import_data_from_file" -> import_data_from_file_body(a)
      [] a.tool = "analyze_import_file" -> analyze_import_file_body(a)
      [] a.tool = "locate_table" -> locate_table_body(a)
      [] a.tool = "list_constraints" -> list_constraints_body(a)
      [] a.tool = "list_indexes" -> list_indexes_body(a)
      [] a.tool = "get_object_ddl" -> get_object_ddl_body(a)
      [] a.tool = "inspect_locks" -> inspect_locks_body(a)
      [] a.tool = "kill_session" -> kill_session_body(a)
      [] a.tool = "list_invalid_objects" -> list_invalid_objects_body(a)
      [] a.tool = "check_tablespace_usage" -> check_tablespace_usage_body(a)

\* The tools whose "with get_connection" stands inside a try/except Exception
CatchesAroundWith ==
    {"run_read_only_query", "run_query_with_pagination", "run_modification_query",
     "search_in_table"}

\* an exception that leaves get_connection: returned as text, or raised on
ToolResultOnRaise(tool) == IF tool \in CatchesAroundWith THEN "error" ELSE "raised"

\* ------------------------------------------------------------------------
\* State of one invocation
\* ------------------------------------------------------------------------
NoConn == [held |-> FALSE, db |-> "", pool |-> 0]

IdleInv ==
    [pc |-> "idle", a |-> NoArg, name |-> "", conn |-> NoConn, calls |-> <<>>,
     exc |-> "none", msg |-> NoMessage, result |-> "", report |-> <<>>,
     at |-> 0, visited |-> <<>>, matches |-> <<>>]

\* no export loop running, nothing logged yet
NoCsv == [size |-> 0, BATCH_SIZE |-> 1, MAX_CSV_ROWS |-> 1, fetched |-> 0,
          rows_written |-> 0, pc |-> "off"]

AsideInit ==
    /\ csv = NoCsv
    /\ query_history = <<>>
    /\ logCalls = 0

Init ==
    /\ cfg \in DOMAIN Configs
    /\ pools = <<>>
    /\ createCalls = [n \in AllNames |-> 0]
    /\ createdOk = [n \in AllNames |-> 0]
    /\ overwrites = 0
    /\ oracle_client_initialized = FALSE
    /\ initCalls = 0
    /\ leased = {}
    /\ inv = [p \in Procs |-> IdleInv]
    /\ invCount = 0
    /\ vname = NoName
    /\ vchecked = FALSE
    /\ vresult = FALSE
    /\ fuzzy = NoFuzzy
    /\ AsideInit

Has(n) == n \in DOMAIN pools
Put(n, v) == [k \in DOMAIN pools \cup {n} |-> IF k = n THEN v ELSE pools[k]]

AsideVars == <<csv, query_history, logCalls>>
ServerVars == <<cfg, vname, vchecked, vresult, fuzzy, AsideVars>>
RegistryVars ==
    <<pools, createCalls, createdOk, overwrites, oracle_client_initialized, initCalls>>

\* the label of a result: f"[DB: {database_name or 'Default'}]"
result_label(database_name) == IF database_name = "" THEN "Default" ELSE database_name

\* An exception leaves get_connection (lines 131-133) and reaches the tool.
Raised(p, exc, msg) ==
    [inv EXCEPT ![p] = [@ EXCEPT !.pc = "done", !.exc = exc, !.msg = msg,
                                 !.result = ToolResultOnRaise(inv[p].a.tool)]]

\* A tool is called with input a: what it checks before get_connection.
Invoke(p, a) ==
    /\ inv[p].pc = "idle"
    /\ invCount < MaxInvocations
    /\ invCount' = invCount + 1
    /\ inv' = [inv EXCEPT ![p] =
                  IF ToolCheck(a) # ""
                  THEN [IdleInv EXCEPT !.pc = "done", !.a = a, !.result = ToolCheck(a)]
                  ELSE [IdleInv EXCEPT !.pc = "resolve", !.a = a,
                                       !.at = IF a.tool = "locate_table" THEN 1 ELSE 0]]
    /\ UNCHANGED <<ServerVars, RegistryVars, leased>>

\* the name a tool passes to get_connection: its database_name argument,
\* or for locate_table the key its loop has reached
db_name_of(p) == IF inv[p].at > 0 THEN KeyList[inv[p].at] ELSE inv[p].a.db

\* get_connection, lines 95-104
Resolve(p) ==
    /\ inv[p].pc = "resolve"
    /\ LET r == ResolveInGetConnection(db_name_of(p))
       IN inv' = IF r.ok
                 THEN [inv EXCEPT ![p] = [@ EXCEPT !.pc = "get_pool", !.name = r.name]]
                 ELSE Raised(p, "ValueError", r.msg)
    /\ UNCHANGED <<ServerVars, RegistryVars, leased, invCount>>

\* a lookup that finds no pool whatever the registry holds
NeedsCreateAlways(n) == TRUE

\* get_pool, line 65: "if db_name not in _pools"
NeedsCreate(n) == ~Has(n)

\* get_pool, lines 52-65: the name is resolved again, then looked up
GetPoolCheck(p) ==
    /\ inv[p].pc = "get_pool"
    /\ LET r == ResolveInGetPool(inv[p].name)
       IN inv' = IF ~r.ok THEN Raised(p, "ValueError", r.msg)
                 ELSE IF NeedsCreate(r.name)
                 THEN [inv EXCEPT ![p] = [@ EXCEPT !.pc = "create", !.name = r.name]]
                 ELSE [inv EXCEPT ![p] = [@ EXCEPT !.pc = "connect", !.name = r.name]]
    /\ UNCHANGED <<ServerVars, RegistryVars, leased, invCount>>

\* What oracledb.init_oracle_client may answer: it returns, or it raises a
\* DatabaseError whose text holds DPY-1001, another DatabaseError, or an
\* error of a class outside DatabaseError.
InitAnswers == {"ok", "DPY-1001", "DatabaseError", "InterfaceError"}

\* the answers "except oracledb.DatabaseError" does not catch (line 43)
EscapesInit(answer) == answer = "InterfaceError"

\* line 38: "if not _oracle_client_initialized"
InitNeeded == ~oracle_client_initialized

\* init_oracle_client (lines 35-46) when the driver gives this answer;
\* "skipped" when the flag was set and the driver is not called
init_oracle_client(answer) ==
    IF answer = "skipped"
    THEN UNCHANGED <<oracle_client_initialized, initCalls>>
    ELSE /\ initCalls' = initCalls + 1
         /\ oracle_client_initialized' =
               IF EscapesInit(answer) THEN oracle_client_initialized ELSE TRUE

\* the exception of an init call that was not caught, by its origin
InitMessage == [value |-> "init_oracle_client", hasList |-> FALSE, available |-> <<>>]

\* a failure path that leaves an entry behind
RegistryCachingFailure(n) == Put(n, 0)

\* get_pool, lines 86-88: create_pool raised before "_pools[db_name] = pool"
RegistryAfterFailure(n) == pools

\* get_pool, lines 66-88: the registry entry is made
CreatePool(p) ==
    LET n == inv[p].name
        db_conf == Profile(n)
    IN /\ inv[p].pc = "create"
       /\ \E answer \in (IF InitNeeded THEN InitAnswers ELSE {"skipped"}) :
             /\ init_oracle_client(answer)
             /\ IF EscapesInit(answer)
                THEN /\ inv' = Raised(p, answer, InitMessage)
                     /\ UNCHANGED <<pools, createCalls, createdOk, overwrites>>
                ELSE IF ModeRaises(db_conf)
                THEN /\ inv' = Raised(p, "AttributeError", NoMessage)
                     /\ UNCHANGED <<pools, createCalls, createdOk, overwrites>>
                ELSE IF IsSysdba(db_conf)
                THEN /\ pools' = Put(n, 0)
                     /\ inv' = [inv EXCEPT ![p] = [@ EXCEPT !.pc = "connect"]]
                     /\ UNCHANGED <<createCalls, createdOk, overwrites>>
                ELSE /\ createCalls' = [createCalls EXCEPT ![n] = @ + 1]
                     /\ \E created \in BOOLEAN :
                           IF created
                           THEN /\ createdOk' = [createdOk EXCEPT ![n] = @ + 1]
                                /\ pools' = Put(n, createdOk[n] + 1)
                                /\ overwrites' =
                                      IF Has(n) /\ pools[n] # 0
                                      THEN overwrites + 1 ELSE overwrites
                                /\ inv' = [inv EXCEPT ![p] =
                                      [@ EXCEPT !.pc = "connect",
                                                !.calls = Append(@,
                                                    ConnEv("create_pool", n,
                                                           createdOk[n] + 1))]]
                           ELSE /\ inv' = Raised(p, "DatabaseError", NoMessage)
                                /\ pools' = RegistryAfterFailure(n)
                                /\ UNCHANGED <<createdOk, overwrites>>
       /\ UNCHANGED <<ServerVars, leased, invCount>>

\* get_connection, lines 109-126: the connection is obtained
Connect(p) ==
    LET n == inv[p].name
        db_conf == Profile(n)
    IN /\ inv[p].pc = "connect"
       /\ IF ModeRaises(db_conf)
          THEN /\ inv' = Raised(p, "AttributeError", NoMessage)
               /\ UNCHANGED leased
          ELSE \E obtained \in BOOLEAN :
                 LET pool == IF IsSysdba(db_conf) THEN 0 ELSE pools[n]
                     op == IF IsSysdba(db_conf) THEN "connect" ELSE "acquire"
                 IN IF obtained
                    THEN /\ leased' = leased \cup {[owner |-> p, db |-> n, pool |-> pool]}
                         /\ inv' = [inv EXCEPT ![p] =
                               [@ EXCEPT !.pc = "body",
                                         !.conn = [held |-> TRUE, db |-> n, pool |-> pool],
                                         !.calls = Append(@, ConnEv(op, n, pool))]]
                    ELSE /\ inv' = Raised(p, "DatabaseError", NoMessage)
                         /\ UNCHANGED leased
       /\ UNCHANGED <<ServerVars, RegistryVars, invCount>>

\* the body of the tool's with-block runs on the connection
Body(p) ==
    /\ inv[p].pc = "body"
    /\ \E o \in ToolBody(inv[p].a) :
          inv' = [inv EXCEPT ![p] =
                     [@ EXCEPT !.pc = "exit", !.calls = @ \o o.calls,
                               !.result = o.result, !.exc = o.exc,
                               !.report = o.report]]
    /\ UNCHANGED <<ServerVars, RegistryVars, leased, invCount>>

\* a version of the scope exit with no finally clause
ExitScopeNoFinally(p) ==
    LET c == inv[p].conn
        op == IF c.pool = 0 THEN "close" ELSE "release"
        returned == inv[p].exc = "none"
    IN /\ inv[p].pc = "exit"
       /\ leased' = IF returned
                    THEN leased \ {[owner |-> p, db |-> c.db, pool |-> c.pool]}
                    ELSE leased
       /\ inv' = [inv EXCEPT ![p] =
                     [@ EXCEPT !.pc = "done",
                               !.calls = IF returned THEN Append(@, ConnEv(op, c.db, c.pool)) ELSE @,
                               !.result = IF inv[p].exc = "none" THEN @
                                          ELSE ToolResultOnRaise(inv[p].a.tool)]]
       /\ UNCHANGED <<ServerVars, RegistryVars, invCount>>

\* get_connection, lines 119-133: the scope is left, normally or not
ExitScope(p) ==
    LET c == inv[p].conn
        op == IF c.pool = 0 THEN "close" ELSE "release"
    IN /\ inv[p].pc = "exit"
       /\ leased' = leased \ {[owner |-> p, db |-> c.db, pool |-> c.pool]}
       /\ inv' = [inv EXCEPT ![p] =
                     [@ EXCEPT !.pc = "done",
                               !.calls = Append(@, ConnEv(op, c.db, c.pool)),
                               !.result = IF inv[p].exc = "none" THEN @
                                          ELSE ToolResultOnRaise(inv[p].a.tool)]]
       /\ UNCHANGED <<ServerVars, RegistryVars, invCount>>

\* the tool call is over and its result is with the caller
Return(p) ==
    /\ inv[p].pc = "done"
    /\ inv[p].at = 0
    /\ inv' = [inv EXCEPT ![p] = IdleInv]
    /\ UNCHANGED <<ServerVars, RegistryVars, leased, invCount>>

Step(p) ==
    \/ Resolve(p)
    \/ GetPoolCheck(p)
    \/ CreatePool(p)
    \/ Connect(p)
    \/ Body(p)
    \/ ExitScope(p)
    \/ Return(p)

\* Invocations run one at a time, each to completion (spec section 5).
OthersIdle(p) == \A q \in Procs \ {p} : inv[q].pc = "idle"

Start(p) == OthersIdle(p) /\ \E a \in Inputs : Invoke(p, a)

Next == \E p \in Procs : Start(p) \/ Step(p)

Spec == Init /\ [][Next]_vars

\* ------------------------------------------------------------------------
\* Invocations that overlap: the first acquisitions of a name may interleave
\* at every driver call (create_pool, acquire and connect block).
\* ------------------------------------------------------------------------
ConcInputs ==
    {Arg("run_read_only_query", d, <<"SELECT", " ", "1">>, NoName, NoName, "", 1, "ok") :
        d \in DbArgs}

StartConc(p) == \E a \in ConcInputs : Invoke(p, a)

NextConc == \E p \in Procs : StartConc(p) \/ Step(p)

SpecConc == Init /\ [][NextConc]_vars

\* ------------------------------------------------------------------------
\* validate_identifier on its own: one call on a name drawn from the names
\* of at most MaxRuns runs
\* ------------------------------------------------------------------------
InputChars == {"A", "1", "_", " ", "NL"}
InputCounts == {1, MaxIdentLen - 1, MaxIdentLen}
InputRuns == {Run(c, n) : c \in InputChars, n \in InputCounts}

NameInputs ==
    {s \in UNION {[1..k -> InputRuns] : k \in 0..MaxRuns} :
        \A i \in 1..(Len(s) - 1) : s[i].c # s[i + 1].c}

InitIdent ==
    /\ cfg = 1
    /\ pools = <<>>
    /\ createCalls = [n \in AllNames |-> 0]
    /\ createdOk = [n \in AllNames |-> 0]
    /\ overwrites = 0
    /\ oracle_client_initialized = FALSE
    /\ initCalls = 0
    /\ leased = {}
    /\ inv = [p \in Procs |-> IdleInv]
    /\ invCount = 0
    /\ vname \in NameInputs
    /\ vchecked = FALSE
    /\ vresult = FALSE
    /\ fuzzy = NoFuzzy
    /\ AsideInit

CallValidateIdentifier ==
    /\ ~vchecked
    /\ vchecked' = TRUE
    /\ vresult' = validate_identifier(vname)
    /\ UNCHANGED <<cfg, vname, fuzzy, AsideVars, RegistryVars, leased, inv, invCount>>

NextIdent == CallValidateIdentifier

SpecIdent == InitIdent /\ [][NextIdent]_vars

\* ------------------------------------------------------------------------
\* The fuzzy matching of analyze_import_file alone, on every header and
\* every table within the bounds.
\* ------------------------------------------------------------------------
InitFuzzy ==
    /\ cfg = 1
    /\ pools = <<>>
    /\ createCalls = [n \in AllNames |-> 0]
    /\ createdOk = [n \in AllNames |-> 0]
    /\ overwrites = 0
    /\ oracle_client_initialized = FALSE
    /\ initCalls = 0
    /\ leased = {}
    /\ inv = [p \in Procs |-> IdleInv]
    /\ invCount = 0
    /\ vname = NoName
    /\ vchecked = FALSE
    /\ vresult = FALSE
    /\ fuzzy \in {[NoFuzzy EXCEPT !.columns = h, !.db_cols_info = t] :
                    h \in Headers, t \in Tables}
    /\ AsideInit

FuzzyMatching ==
    /\ ~fuzzy.done
    /\ fuzzy' = [fuzzy EXCEPT !.done = TRUE,
                              !.out = fuzzy_matching(fuzzy.columns, fuzzy.db_cols_info)]
    /\ UNCHANGED <<cfg, vname, vchecked, vresult, AsideVars, RegistryVars, leased, inv,
                   invCount>>

NextFuzzy == FuzzyMatching

SpecFuzzy == InitFuzzy /\ [][NextFuzzy]_vars

\* ------------------------------------------------------------------------
\* Discovery: locate_table, which asks every configured database in turn,
\* and get_session_info, which reports on every entry of the registry.
\* ------------------------------------------------------------------------
\* the result of locate_table by the number of its matches
locate_result(matches) ==
    IF matches = <<>> THEN "not_found"
    ELSE IF Len(matches) = 1 THEN "unique" ELSE "ambiguous"

\* locate_table, lines 239-256: a round of "for db_name in DATABASES.keys()"
\* is over.  An exception of the round is dropped ("except Exception:
\* pass"); the loop goes to the next key or, after the last, the result is
\* made from the matches.
NextDatabase(p) ==
    LET r == inv[p]
        db_name == KeyList[r.at]
        found == r.exc = "none" /\ r.result = "exists"
        matches == IF found THEN Append(r.matches, db_name) ELSE r.matches
        visited == Append(r.visited, db_name)
    IN /\ r.pc = "done"
       /\ r.at > 0
       /\ inv' = [inv EXCEPT ![p] =
                     IF r.at < Len(KeyList)
                     THEN [r EXCEPT !.pc = "resolve", !.at = r.at + 1, !.name = "",
                                    !.conn = NoConn, !.exc = "none", !.msg = NoMessage,
                                    !.result = "", !.matches = matches,
                                    !.visited = visited]
                     ELSE [r EXCEPT !.pc = "done", !.at = 0, !.name = "",
                                    !.conn = NoConn, !.exc = "none", !.msg = NoMessage,
                                    !.result = locate_result(matches),
                                    !.matches = matches, !.visited = visited]]
       /\ UNCHANGED <<ServerVars, RegistryVars, leased, invCount>>

\* The orders in which the registry may hold its entries
Orders(S) ==
    {s \in [1..Cardinality(S) -> S] : \A i, j \in DOMAIN s : i # j => s[i] # s[j]}

\* get_session_info, lines 727-736: the test connection on one pool.  The
\* acquire may raise; the query may raise after it; the with-statement gives
\* the connection back in both cases, and "except Exception" notes the
\* failure in the report.
TestConnection(n) ==
    { <<>>,
      <<ConnEv("acquire", n, pools[n]), Exec("catalog", NoSql, {}),
        ConnEv("release", n, pools[n])>>,
      <<ConnEv("acquire", n, pools[n]), Exec("catalog", NoSql, {}), Fetched(1),
        ConnEv("release", n, pools[n])>> }

\* get_session_info, lines 724-737: "for name, pool in _pools.items()".
\* pool.opened on an entry that is None raises AttributeError outside the
\* try of the round, and the loop ends there.
RECURSIVE SessionReport(_)
SessionReport(order) ==
    IF order = <<>> THEN {Out(<<>>, "ok", "none")}
    ELSE IF pools[Head(order)] = 0 THEN {Out(<<>>, "raised", "AttributeError")}
    ELSE {Out(c \o r.calls, r.result, r.exc) :
             c \in TestConnection(Head(order)), r \in SessionReport(Tail(order))}

\* get_session_info as a whole (lines 715-739)
GetSessionInfo(p) ==
    /\ inv[p].pc = "idle"
    /\ OthersIdle(p)
    /\ invCount < MaxInvocations
    /\ invCount' = invCount + 1
    /\ \E order \in Orders(DOMAIN pools) :
          \E o \in (IF DOMAIN pools = {} THEN {Out(<<>>, "no_pools", "none")}
                    ELSE SessionReport(order)) :
             inv' = [inv EXCEPT ![p] =
                        [IdleInv EXCEPT !.pc = "done",
                                        !.a = [NoArg EXCEPT !.tool = "get_session_info"],
                                        !.calls = o.calls, !.result = o.result,
                                        !.exc = o.exc]]
    /\ UNCHANGED <<ServerVars, RegistryVars, leased>>

DiscoveryInputs ==
    {Arg("locate_table", "", NoSql, i, NoName, "", 1, "ok") : i \in ToolNames}
    \cup {Arg("list_indexes", d, NoSql, PlainName, NoName, "", 1, "ok") : d \in DbArgs}

StartDiscovery(p) == OthersIdle(p) /\ \E a \in DiscoveryInputs : Invoke(p, a)

NextDiscovery ==
    \E p \in Procs : StartDiscovery(p) \/ GetSessionInfo(p) \/ Step(p) \/ NextDatabase(p)

SpecDiscovery == Init /\ [][NextDiscovery]_vars

\* the connection layer at rest, for the specifications of one routine
ServerAtRest ==
    /\ cfg = 1
    /\ pools = <<>>
    /\ createCalls = [n \in AllNames |-> 0]
    /\ createdOk = [n \in AllNames |-> 0]
    /\ overwrites = 0
    /\ oracle_client_initialized = FALSE
    /\ initCalls = 0
    /\ leased = {}
    /\ inv = [p \in Procs |-> IdleInv]
    /\ invCount = 0
    /\ vname = NoName
    /\ vchecked = FALSE
    /\ vresult = FALSE
    /\ fuzzy = NoFuzzy

\* ------------------------------------------------------------------------
\* The write loop of export_query_to_csv (lines 537-545) alone, one
\* fetchmany a step, for every size of the result set and every positive
\* setting of BATCH_SIZE and MAX_CSV_ROWS within the bounds.
\* ------------------------------------------------------------------------
InitExport ==
    /\ ServerAtRest
    /\ query_history = <<>>
    /\ logCalls = 0
    /\ csv \in {[NoCsv EXCEPT !.size = n, !.BATCH_SIZE = b, !.MAX_CSV_ROWS = c,
                              !.pc = "loop"] :
                  n \in 0..MaxResultRows, b \in 1..MaxBatchSize, c \in 1..MaxCsvRows}

\* cursor.fetchmany(BATCH_SIZE): the rows left, BATCH_SIZE at most
fetchmany(c) ==
    IF c.size - c.fetched < c.BATCH_SIZE THEN c.size - c.fetched ELSE c.BATCH_SIZE

\* one round of "while True": fetch, stop on an empty batch, write the
\* batch, count it, stop once the count has reached MAX_CSV_ROWS
ExportRound(c) ==
    LET rows == fetchmany(c)
    IN IF rows = 0 THEN [c EXCEPT !.pc = "done"]
       ELSE [c EXCEPT !.fetched = @ + rows,
                      !.rows_written = @ + rows,
                      !.pc = IF c.rows_written + rows >= c.MAX_CSV_ROWS
                             THEN "done" ELSE "loop"]

FetchMany ==
    /\ csv.pc = "loop"
    /\ csv' = ExportRound(csv)
    /\ UNCHANGED <<cfg, vname, vchecked, vresult, fuzzy, query_history, logCalls,
                   RegistryVars, leased, inv, invCount>>

NextExport == FetchMany

SpecExport == InitExport /\ [][NextExport]_vars

\* ------------------------------------------------------------------------
\* The query log (logger.py) alone: a series of log_query calls.  An entry
\* is known by the number of the call that appended it.
\* ------------------------------------------------------------------------
InitLog ==
    /\ ServerAtRest
    /\ csv = NoCsv
    /\ query_history = <<>>
    /\ logCalls = 0

\* log_query that never evicts
log_query_Unbounded(history, entry) == Append(history, entry)

\* append, then pop(0) when the history has grown past max_history
log_query(history, entry) ==
    LET appended == Append(history, entry)
    IN IF Len(appended) > max_history THEN Tail(appended) ELSE appended

LogQueryCall ==
    /\ logCalls < MaxLogCalls
    /\ logCalls' = logCalls + 1
    /\ query_history' = log_query(query_history, logCalls + 1)
    /\ UNCHANGED <<cfg, vname, vchecked, vresult, fuzzy, csv, RegistryVars, leased, inv,
                   invCount>>

NextLog == LogQueryCall

SpecLog == InitLog /\ [][NextLog]_vars

\* ------------------------------------------------------------------------
\* Properties
\* ------------------------------------------------------------------------
Privileged(n) == Profile(n).mode \in {"SYSDBA", "sysdba"}

Obtained(p) == {i \in DOMAIN inv[p].calls : inv[p].calls[i].op \in {"acquire", "connect"}}
GivenBack(p) == {i \in DOMAIN inv[p].calls : inv[p].calls[i].op \in {"release", "close"}}
Held(p) == {c \in leased : c.owner = p}

\* C1: every connection that get_connection obtained is given back exactly
\* once by the time the scope is left, with pool.release on the pool it came
\* from for a pooled profile and with close for a privileged one, whether the
\* body returned or raised; between invocations nothing is leased or open.
C1_ReleasedExactlyOnce ==
    \A p \in Procs :
        LET calls == inv[p].calls
        IN /\ Cardinality(Obtained(p)) <= 1
           /\ Cardinality(GivenBack(p)) <= Cardinality(Obtained(p))
           /\ inv[p].pc \in {"body", "exit"} =>
                 /\ Cardinality(Obtained(p)) = 1
                 /\ GivenBack(p) = {}
                 /\ Cardinality(Held(p)) = 1
           /\ inv[p].pc \in {"idle", "done"} =>
                 /\ Held(p) = {}
                 /\ \A i \in Obtained(p) : \E j \in GivenBack(p) :
                       /\ j > i
                       /\ calls[j].db = calls[i].db
                       /\ calls[j].pool = calls[i].pool
                       /\ calls[j].op = IF Privileged(calls[i].db) THEN "close" ELSE "release"
                 /\ Cardinality(GivenBack(p)) = Cardinality(Obtained(p))

\* C1 witness: a pooled connection was obtained, the body raised, and the
\* invocation is over with the connection released.
C1_Witness ==
    \E p \in Procs :
        /\ inv[p].pc = "done"
        /\ inv[p].exc # "none"
        /\ \E i \in GivenBack(p) : inv[p].calls[i].op = "release"

\* C2: when first acquisitions of one name overlap, no second pool is
\* created for the name and no registry entry is replaced by another pool.
C2_NoDuplicatePool ==
    /\ \A n \in AllNames : createdOk[n] <= 1
    /\ overwrites = 0

\* C3: one invocation after the other, a name gets at most one pool: once the
\* registry holds an entry for a name the entry stays the same object and no
\* create_pool call is made for the name again, and every pooled connection
\* comes from the pool the registry holds.
C3_PoolCreatedOnce ==
    [][ /\ \A n \in AllNames :
              /\ createdOk'[n] <= 1
              /\ Has(n) => /\ n \in DOMAIN pools'
                           /\ pools'[n] = pools[n]
                           /\ createCalls'[n] = createCalls[n]
        /\ \A c \in leased' : c.pool # 0 =>
              c.db \in DOMAIN pools' /\ pools'[c.db] = c.pool ]_vars

\* C3 witness: a later invocation holds a connection of the pool an earlier
\* invocation created, and has called create_pool itself not at all.
C3_Witness ==
    \E p \in Procs :
        /\ inv[p].pc = "body"
        /\ invCount = 2
        /\ inv[p].conn.pool = 1
        /\ createCalls[inv[p].name] = 1
        /\ \A i \in DOMAIN inv[p].calls : inv[p].calls[i].op # "create_pool"

\* C4: for a privileged profile create_pool is never called and the registry
\* never holds a pool; an invocation on it opens one dedicated connection and
\* closes that connection when the scope is left, whether the body returned
\* or raised.
C4_PrivilegedNeverPooled ==
    /\ \A n \in Keys : Privileged(n) =>
          /\ createCalls[n] = 0
          /\ createdOk[n] = 0
          /\ Has(n) => pools[n] = 0
    /\ \A p \in Procs : (inv[p].name \in Keys /\ Privileged(inv[p].name)) =>
          LET calls == inv[p].calls
          IN /\ \A i \in DOMAIN calls :
                   calls[i].op \notin {"create_pool", "acquire", "release"}
             /\ inv[p].pc \in {"body", "exit"} =>
                   /\ Cardinality(Obtained(p)) = 1
                   /\ GivenBack(p) = {}
                   /\ Held(p) = {[owner |-> p, db |-> inv[p].name, pool |-> 0]}
             /\ inv[p].pc = "done" =>
                   /\ Cardinality(GivenBack(p)) = Cardinality(Obtained(p))
                   /\ Held(p) = {}

\* C4 witness: on a privileged profile the body raised and the dedicated
\* connection was closed.
C4_Witness ==
    \E p \in Procs :
        /\ inv[p].pc = "done"
        /\ inv[p].name \in Keys
        /\ Privileged(inv[p].name)
        /\ inv[p].exc # "none"
        /\ \E i \in GivenBack(p) : inv[p].calls[i].op = "close"

\* C5: when get_pool fails to create the pool of a name, the invocation ends
\* with the error, and the registry is unchanged and without an entry for the
\* name, so that the next acquisition creates again.
C5_FailedCreationNotCached ==
    [][ \A p \in Procs :
            (inv[p].pc = "create" /\ inv'[p].pc = "done") =>
                /\ pools' = pools
                /\ inv[p].name \notin DOMAIN pools'
                /\ inv'[p].exc # "none"
                /\ inv'[p].result \in {"error", "raised"} ]_vars

\* C5 witness: create_pool failed for a name and a later acquisition of the
\* name called it again, with success.
C5_Witness ==
    \E n \in AllNames : createCalls[n] = 2 /\ createdOk[n] = 1 /\ Has(n)

\* what the resolver is claimed to compute
Requested(db) == IF db = "" THEN GLOBAL_CONFIG.default_db ELSE db
ClaimedName(db) ==
    IF Requested(db) \in Keys THEN Requested(db) ELSE DATABASES[1].name
ClaimedFails(db) ==
    Requested(db) \notin Keys /\ ("default" \in Keys \/ Len(DATABASES) = 0)

\* C6: resolution is a function of the requested name and the configuration:
\* the default for an empty name, a known name as it is, the first profile
\* for an unknown name when no profile is called "default", and otherwise a
\* failure whose message names the requested value and the known names.
C6_ResolutionAsClaimed ==
    \A p \in Procs :
        /\ inv[p].name # "" =>
              ~ClaimedFails(inv[p].a.db) /\ inv[p].name = ClaimedName(inv[p].a.db)
        /\ inv[p].exc = "ValueError" =>
              /\ ClaimedFails(inv[p].a.db)
              /\ inv[p].msg.value = Requested(inv[p].a.db)
              /\ inv[p].msg.hasList
              /\ inv[p].msg.available = KeyList

\* the names the identifier check is claimed to accept
SafeAsClaimed(name) ==
    /\ NameLen(name) \in 1..MaxIdentLen
    /\ name[1].c \in Letters
    /\ \A i \in DOMAIN name : name[i].c \in Letters \cup Digits \cup Marks

\* C7: validate_identifier is true exactly for the names of 1 to 128
\* characters that start with a letter and go on with letters, digits, '_',
\* '$', '#' or '.', and false for every other name.
C7_IdentifierCheckAsClaimed ==
    vchecked => (vresult = SafeAsClaimed(vname))

\* C8: no caller-supplied statement whose upper-cased text holds a keyword
\* of the deny-list is passed to cursor.execute.
C8_NoBlockedKeywordExecuted ==
    \A p \in Procs : \A i \in DOMAIN inv[p].calls :
        LET e == inv[p].calls[i]
        IN (e.op = "execute" /\ e.kind \in {"user", "wrapped"}) =>
              check_dangerous_query(e.sql) = NoKeyword

\* C9: no statement is executed whose text embeds a caller-supplied name
\* that validate_identifier refuses.
C9_NoUnsafeNameExecuted ==
    \A p \in Procs : \A i \in DOMAIN inv[p].calls :
        LET e == inv[p].calls[i]
        IN e.kind = "interpolated" => \A nm \in e.names : validate_identifier(nm)

\* C10: run_modification_query rejects, before it asks for a connection,
\* every statement that begins with SELECT or WITH once trimmed and
\* upper-cased, and every statement that holds DROP.
C10_ModificationRejectsReads ==
    \A p \in Procs :
        LET normalized == upper(strip(inv[p].a.sql))
        IN (/\ inv[p].a.tool = "run_modification_query"
            /\ \/ startswith(normalized, "SELECT")
               \/ startswith(normalized, "WITH")
               \/ Contains(normalized, <<"DROP">>)) =>
              /\ inv[p].pc = "done"
              /\ inv[p].result = "rejected"
              /\ inv[p].calls = <<>>

\* the places of the calls of one kind in the trace of an invocation
CallsOf(p, ops) == {i \in DOMAIN inv[p].calls : inv[p].calls[i].op \in ops}
Committed(p) == {i \in CallsOf(p, {"commit"}) : inv[p].calls[i] = Commit}

\* C11: in run_read_only_query a statement that does not start with SELECT or
\* WITH once trimmed and upper-cased, or that holds a blocked keyword, ends
\* in a failure result with no pool created, no connection obtained and no
\* statement executed; and no invocation of this tool ever calls commit or
\* rollback.
C11_ReadValidatesBeforeConnecting ==
    \A p \in Procs :
        LET normalized == upper(strip(inv[p].a.sql))
            invalid == \/ /\ ~startswith(normalized, "SELECT")
                          /\ ~startswith(normalized, "WITH")
                       \/ \E k \in DOMAIN DANGEROUS_KEYWORDS :
                             Contains(upper(inv[p].a.sql), DANGEROUS_KEYWORDS[k])
        IN inv[p].a.tool = "run_read_only_query" =>
              /\ invalid => /\ inv[p].pc = "done"
                            /\ inv[p].result = "rejected"
                            /\ inv[p].calls = <<>>
                            /\ inv[p].conn = NoConn
                            /\ Held(p) = {}
              /\ CallsOf(p, {"commit", "rollback"}) = {}

\* C11 witness: a SELECT that holds a blocked keyword was turned away.
C11_Witness ==
    \E p \in Procs :
        /\ inv[p].a.tool = "run_read_only_query"
        /\ inv[p].a.sql = <<"SELECT", " ", "SHUTDOWN">>
        /\ inv[p].pc = "done"
        /\ inv[p].result = "rejected"

\* C12: a run_modification_query invocation that executed its statement
\* ends in one of two ways.  Success: exactly one commit, which succeeded,
\* no rollback, and the result reports the rows affected.  Failure (execute
\* or commit raised): rollback was called, no commit succeeded, and the
\* result is an error text.  Either way the connection is given back exactly
\* once, after every commit and rollback, and never before them.
C12_ModificationCommitsOrRollsBack ==
    \A p \in Procs :
        (/\ inv[p].a.tool = "run_modification_query"
         /\ CallsOf(p, {"execute"}) # {}) =>
           /\ \A r \in GivenBack(p) : \A t \in CallsOf(p, {"commit", "rollback"}) : t < r
           /\ inv[p].pc = "done" =>
                /\ Cardinality(CallsOf(p, {"execute"})) = 1
                /\ inv[p].result \in {"ok", "error"}
                /\ inv[p].result = "ok" =>
                      /\ Cardinality(CallsOf(p, {"commit"})) = 1
                      /\ Cardinality(Committed(p)) = 1
                      /\ CallsOf(p, {"rollback"}) = {}
                      /\ Len(inv[p].report) = 1
                      /\ inv[p].report[1] \in RowCounts
                /\ inv[p].result = "error" =>
                      /\ Cardinality(CallsOf(p, {"rollback"})) = 1
                      /\ Committed(p) = {}
                      /\ inv[p].report = <<>>
                /\ Cardinality(GivenBack(p)) = 1
                /\ Held(p) = {}

\* C12 witness: the commit of a modification raised, the work was rolled
\* back and the connection was released after the rollback.
C12_Witness ==
    \E p \in Procs :
        /\ inv[p].a.tool = "run_modification_query"
        /\ inv[p].pc = "done"
        /\ inv[p].result = "error"
        /\ \E i \in CallsOf(p, {"commit"}) : inv[p].calls[i] = CommitRaised
        /\ CallsOf(p, {"rollback"}) # {}
        /\ GivenBack(p) # {}

\* the tools of the Query Executor
QueryExecutorTools ==
    {"run_read_only_query", "run_query_with_pagination", "run_modification_query"}

\* C13: an invocation of a Query Executor tool that executed a statement
\* has appended exactly one entry to the query log by the time it is over,
\* whether the execution succeeded or failed.
C13_EveryExecutionLogged ==
    \A p \in Procs :
        (/\ inv[p].a.tool \in QueryExecutorTools
         /\ inv[p].pc = "done"
         /\ CallsOf(p, {"execute"}) # {}) =>
            Cardinality(CallsOf(p, {"log_query"})) = 1

\* the least integer not below total_rows / page_size, for a page size
\* other than 0
Ceiling(total_rows, page_size) ==
    CHOOSE q \in (0 - total_rows - 1)..(total_rows + 1) :
        IF page_size > 0
        THEN q * page_size >= total_rows /\ (q - 1) * page_size < total_rows
        ELSE q * page_size <= total_rows /\ (q - 1) * page_size > total_rows

\* the page statements an invocation executed: those that carry an offset
PageStatements(p) == {i \in CallsOf(p, {"execute"}) : inv[p].calls[i].num # <<>>}

PageRejected(p) ==
    /\ inv[p].pc = "done"
    /\ inv[p].result = "rejected"
    /\ inv[p].calls = <<>>
    /\ Held(p) = {}

PageStatementAsClaimed(p) ==
    \A i \in PageStatements(p) :
        inv[p].calls[i].num = <<(inv[p].a.n - 1) * inv[p].a.page_size, inv[p].a.page_size>>

TotalPagesAsClaimed(p) ==
    inv[p].result = "ok" =>
        /\ PageStatements(p) # {}
        /\ Len(inv[p].report) = 3
        /\ inv[p].report[2] = Ceiling(inv[p].report[3], inv[p].a.page_size)

SameDestination(i, j) ==
    LET fcols == file_cols(fuzzy.columns)
    IN /\ InDbColMap(fuzzy.db_cols_info, normalize(fcols[i]))
       /\ normalize(fcols[i]) = normalize(fcols[j])

\* C16: the proposed mapping is injective, and of two different source
\* columns with one normal form that matches a destination column only the
\* first in file order is a key of the mapping while the later one is
\* listed as an extra.
C16_MappingInjective ==
    fuzzy.done =>
        LET m == fuzzy.out.mapping_proposal
            fcols == file_cols(fuzzy.columns)
        IN /\ \A i, j \in DOMAIN m : i # j => m[i].value # m[j].value
           /\ \A i, j \in DOMAIN fcols :
                 (i < j /\ fcols[i] # fcols[j] /\ SameDestination(i, j)) =>
                    /\ fcols[i] \in DictKeys(m)
                    /\ fcols[j] \notin DictKeys(m)
                    /\ fcols[j] \in Range(fuzzy.out.extra_in_file)

\* C17: every key of the proposed mapping is, character for character, a
\* column name of the file's header, and every value is a column name of
\* the table.
C17_KeysAreFileColumns ==
    fuzzy.done =>
        \A i \in DOMAIN fuzzy.out.mapping_proposal :
            /\ fuzzy.out.mapping_proposal[i].key \in Range(fuzzy.columns)
            /\ fuzzy.out.mapping_proposal[i].value \in
                  {fuzzy.db_cols_info[k].name : k \in DOMAIN fuzzy.db_cols_info}

\* the header and the table of the example of C18
ExampleColumns == << <<"A">>, <<"b">> >>
ExampleTable ==
    << [name |-> <<"A">>, null |-> "N"], [name |-> <<"B">>, null |-> "Y"],
       [name |-> <<"C">>, null |-> "N"] >>

\* C18: every column of the file is a key of the mapping or an extra and
\* never both; every column of the table is a value of the mapping or
\* listed missing and never both; a missing column is flagged required
\* exactly when it is not nullable.  For a file {A, b} and a table
\* {A NOT NULL, B, C NOT NULL}: A->A, b->B, missing C (Required), no extra.
C18_ColumnsPartitioned ==
    fuzzy.done =>
        LET m == fuzzy.out.mapping_proposal
            missing == fuzzy.out.missing_in_file
            extras == Range(fuzzy.out.extra_in_file)
        IN /\ \A c \in Range(fuzzy.columns) : (c \in DictKeys(m)) # (c \in extras)
           /\ \A k \in DOMAIN fuzzy.db_cols_info :
                 LET col == fuzzy.db_cols_info[k]
                     listed == {i \in DOMAIN missing : missing[i].name = col.name}
                 IN /\ (col.name \in DictValues(m)) # (listed # {})
                    /\ \A i \in listed : missing[i].required = (col.null = "N")
           /\ (fuzzy.columns = ExampleColumns /\ fuzzy.db_cols_info = ExampleTable) =>
                 /\ m = << [key |-> <<"A">>, value |-> <<"A">>],
                           [key |-> <<"b">>, value |-> <<"B">>] >>
                 /\ missing = << [name |-> <<"C">>, required |-> TRUE] >>
                 /\ extras = {}

\* C15: analyze_import_file changes nothing in the database: the only
\* statements it executes are reads of the catalog, it calls neither
\* executemany nor commit, so no row of the destination table is written by
\* the time it returns.
C15_AnalysisNeverMutates ==
    \A p \in Procs :
        inv[p].a.tool = "analyze_import_file" =>
            /\ \A i \in DOMAIN inv[p].calls :
                  /\ inv[p].calls[i].op \in
                        {"create_pool", "acquire", "connect", "execute", "release", "close"}
                  /\ inv[p].calls[i].op = "execute" => inv[p].calls[i].kind = "catalog"
            /\ CallsOf(p, {"executemany", "commit"}) = {}
            /\ Committed(p) = {}

\* C15 witness: an analysis read the catalog twice, reported its matching
\* and is over.
C15_Witness ==
    \E p \in Procs :
        /\ inv[p].a.tool = "analyze_import_file"
        /\ inv[p].pc = "done"
        /\ inv[p].result = "ok"
        /\ Cardinality(CallsOf(p, {"execute"})) = 2
        /\ inv[p].report = <<fuzzy_matching(inv[p].a.columns, inv[p].a.db_cols_info)>>

StaleSource(a) == \E k \in DictKeys(a.mapping) : k \notin Range(a.columns)

\* the mapping names, by a plain name, a column that the table has not
StaleDestination(a) ==
    \E v \in DictValues(a.mapping) :
        /\ validate_identifier(AsName(v))
        /\ v \notin {a.db_cols_info[k].name : k \in DOMAIN a.db_cols_info}

PassedByCaller(a) == {a.ident} \cup {AsName(v) : v \in DictValues(a.mapping)}

\* C21: the two phases of an import meet only through the caller.  An
\* analyze_import_file invocation makes no insert; between invocations the
\* server holds nothing of an invocation (no proposal is kept); and every
\* insert of import_data_from_file names the columns of the mapping passed
\* in that invocation's column_mapping_json, not those of a proposal.
C21_PhasesJoinedByCaller ==
    \A p \in Procs :
        /\ inv[p].a.tool = "analyze_import_file" => CallsOf(p, {"executemany"}) = {}
        /\ inv[p].pc = "idle" => inv[p] = IdleInv
        /\ inv[p].a.tool = "import_data_from_file" =>
              \A i \in CallsOf(p, {"executemany"}) :
                  inv[p].calls[i].names = PassedByCaller(inv[p].a)

\* C21 witness: an import was made with a mapping that is not the one the
\* server would propose for that file and table, and its insert succeeded.
C21_Witness ==
    \E p \in Procs :
        /\ inv[p].a.tool = "import_data_from_file"
        /\ inv[p].a.mapping #
              fuzzy_matching(inv[p].a.columns, inv[p].a.db_cols_info).mapping_proposal
        /\ inv[p].pc = "done"
        /\ inv[p].result = "ok"
        /\ CallsOf(p, {"executemany"}) # {}

\* C22: every invocation ends with a result text; no exception leaves a
\* tool, whether it came from name resolution, pool creation, connection
\* acquisition or a statement.
C22_ToolsNeverRaise ==
    \A p \in Procs : inv[p].pc = "done" => inv[p].result # "raised"

\* C24: a generate_mock_data invocation that asks for more than 1000 rows
\* ends at once with the validation failure: it never asks for a
\* connection, holds none and makes no driver call.
C24_RowCapBeforeDatabase ==
    \A p \in Procs :
        (inv[p].a.tool = "generate_mock_data" /\ inv[p].a.n > MaxMockRows) =>
            /\ inv[p].pc = "done"
            /\ inv[p].result = "rejected"
            /\ inv[p].calls = <<>>
            /\ inv[p].conn = NoConn

\* C24 witness: 1500 rows were asked of an existing table and refused.
C24_Witness ==
    \E p \in Procs :
        /\ inv[p].a.tool = "generate_mock_data"
        /\ inv[p].a.n = MaxMockRows + 500
        /\ inv[p].a.db_cols_info = UsersTable
        /\ inv[p].pc = "done"
        /\ inv[p].result = "rejected"

\* the invocation read the columns of a table that exists
ReadExistingTable(p) ==
    \E i \in CallsOf(p, {"fetch"}) : inv[p].calls[i].num[1] > 0

\* C25: a generate_mock_data invocation for 0..1000 rows that found its
\* table makes one executemany, of row_count tuples as wide as the table
\* and in the table's column order; it then commits, or, when the insert or
\* the commit raised, rolls back and returns a failure; the connection is
\* given back in both cases.
C25_MockRowsInserted ==
    \A p \in Procs :
        LET a == inv[p].a
            many == CallsOf(p, {"executemany"})
        IN (/\ a.tool = "generate_mock_data"
            /\ a.n >= 0 /\ a.n <= MaxMockRows
            /\ inv[p].pc = "done"
            /\ ReadExistingTable(p)) =>
               /\ Cardinality(many) = 1
               /\ \A i \in many :
                     /\ inv[p].calls[i].num = <<a.n, Len(a.db_cols_info)>>
                     /\ inv[p].calls[i].sql =
                           [k \in DOMAIN a.db_cols_info |-> a.db_cols_info[k].name]
               /\ inv[p].result \in {"ok", "error"}
               /\ (inv[p].result = "ok") <=> (Committed(p) # {})
               /\ (inv[p].result = "error") => (CallsOf(p, {"rollback"}) # {})
               /\ Cardinality(GivenBack(p)) = Cardinality(Obtained(p))
               /\ Held(p) = {}

\* C26: the write loop of an export never counts, and so never writes,
\* more data rows than MAX_CSV_ROWS, whatever the size of the result set
\* and whatever the positive BATCH_SIZE and MAX_CSV_ROWS.
C26_ExportCapped == csv.rows_written <= csv.MAX_CSV_ROWS

\* C28: after n log_query calls the history holds the last min(n, 100)
\* entries in the order of their calls, and so never more than max_history;
\* a call made on a full history drops the oldest entry and no other.
C28_BoundedFifo ==
    LET n == logCalls
        kept == IF n < max_history THEN n ELSE max_history
    IN /\ Len(query_history) <= max_history
       /\ Len(query_history) = kept
       /\ \A i \in 1..kept : query_history[i] = n - kept + i

\* C28 witness: the history was full and three further calls were logged.
C28_Witness ==
    /\ logCalls = max_history + 3
    /\ Len(query_history) = max_history
    /\ query_history[1] = 4

\* C27: the client is initialised once and tolerantly.  The driver's init
\* routine is called at most once over all acquisitions, and no invocation
\* ends on an error of that routine: whatever it answers, the creation of
\* the pool or of the connection is still tried.
C27_InitOnceAndTolerant ==
    /\ initCalls <= 1
    /\ \A p \in Procs : inv[p].pc = "done" => inv[p].msg # InitMessage

\* the profiles on which a locate_table invocation got a connection and
\* read a positive count of tables
FoundIn(p) ==
    {inv[p].calls[i].db : i \in
        {i \in Obtained(p) :
            \E j \in DOMAIN inv[p].calls :
                /\ j > i
                /\ inv[p].calls[j] = Fetched(1)
                /\ \A k \in (i + 1)..(j - 1) : inv[p].calls[k].kind # "conn"}}

\* a locate_table invocation that has left its loop
Located(p) ==
    /\ inv[p].a.tool = "locate_table"
    /\ inv[p].pc = "done"
    /\ inv[p].at = 0
    /\ inv[p].result # "rejected"

\* C23: locate_table rejects an invalid table name before it asks for any
\* connection.  Otherwise no failure of one database stops it: it visits
\* every configured profile in configured order, gives back every
\* connection it obtained, and reports exactly the profiles on which it got
\* a connection and the table exists, as not found, unique or ambiguous.
C23_LocateTableBestEffort ==
    \A p \in Procs :
        /\ (inv[p].a.tool = "locate_table" /\ ~SafeAsClaimed(inv[p].a.ident)) =>
              /\ inv[p].pc = "done"
              /\ inv[p].result = "rejected"
              /\ inv[p].calls = <<>>
        /\ Located(p) =>
              /\ inv[p].visited = KeyList
              /\ Cardinality(GivenBack(p)) = Cardinality(Obtained(p))
              /\ Held(p) = {}
              /\ Range(inv[p].matches) = FoundIn(p)
              /\ inv[p].result =
                    (IF FoundIn(p) = {} THEN "not_found"
                     ELSE IF Cardinality(FoundIn(p)) = 1 THEN "unique" ELSE "ambiguous")

\* C29: get_session_info ends with a report after any acquisitions, those
\* for privileged profiles included: it raises nothing and gives back
\* every test connection it acquired.
C29_SessionInfoReports ==
    \A p \in Procs :
        (inv[p].a.tool = "get_session_info" /\ inv[p].pc = "done") =>
            /\ inv[p].result \in {"ok", "no_pools"}
            /\ inv[p].exc = "none"
            /\ Cardinality(GivenBack(p)) = Cardinality(Obtained(p))

\* C30: the label of a result names the profile the statement ran on.  When
\* run_modification_query or run_read_only_query is called with a
\* database_name that is not empty and reports success, every connection
\* of the invocation was obtained for the profile of that label.
C30_LabelNamesProfileUsed ==
    \A p \in Procs :
        (/\ inv[p].a.tool \in {"run_modification_query", "run_read_only_query"}
         /\ inv[p].a.db # ""
         /\ inv[p].pc = "done"
         /\ inv[p].result = "ok") =>
            \A i \in Obtained(p) : inv[p].calls[i].db = result_label(inv[p].a.db)

====
